---- MODULE Spec2Model ----
(***************************************************************************)
(* Model of the smart-notes client (src/src/App.jsx): the App component's  *)
(* React state, its event handlers, the two effects, the debounce timer    *)
(* and the remote notes collection it writes to and subscribes to.         *)
(*                                                                         *)
(* Strings are sequences of one-character strings, so that trim,           *)
(* toLowerCase, split, join and includes are computed, not assumed.        *)
(***************************************************************************)
EXTENDS Integers, Sequences, FiniteSets, TLC

\* ------------------------------------------------------------------ bounds
MaxLen == 5         \* longest enumerated tag-input string (SpecTags)
MaxWrites == 2      \* writes the client issues in one behaviour
MaxSaves == 1       \* of which, saves of the editor
MaxKeys == 2        \* search keystrokes (timers created) in one behaviour

\* --------------------------------------------------------- program constants
DebounceDelay == 300    \* setTimeout(..., 300)
TickStep == DebounceDelay \div 2    \* granularity of the passage of time

\* ----------------------------------------------------------------- strings
Space == " "
Comma == ","
Alphabet == {"a", "A", Space, Comma}

\* String.prototype.toLowerCase, one character
LowerChar(c) ==
  CASE c = "A" -> "a"
    [] c = "B" -> "b"
    [] c = "D" -> "d"
    [] c = "G" -> "g"
    [] OTHER -> c

toLowerCase(s) == [i \in 1..Len(s) |-> LowerChar(s[i])]

RECURSIVE trimStart(_)
trimStart(s) ==
  IF s # <<>> /\ Head(s) = Space THEN trimStart(Tail(s)) ELSE s

RECURSIVE trimEnd(_)
trimEnd(s) ==
  IF s # <<>> /\ s[Len(s)] = Space THEN trimEnd(SubSeq(s, 1, Len(s) - 1)) ELSE s

\* String.prototype.trim
trim(s) == trimEnd(trimStart(s))

\* String.prototype.includes
includes(s, q) ==
  \E i \in 0..(Len(s) - Len(q)) : SubSeq(s, i + 1, i + Len(q)) = q

\* String.prototype.split(','): "" gives [""], "a," gives ["a", ""]
RECURSIVE split(_)
split(s) ==
  IF \A i \in 1..Len(s) : s[i] # Comma
  THEN <<s>>
  ELSE LET i == CHOOSE k \in 1..Len(s) :
                  s[k] = Comma /\ \A j \in 1..(k - 1) : s[j] # Comma
       IN  <<SubSeq(s, 1, i - 1)>> \o split(SubSeq(s, i + 1, Len(s)))

\* Array.prototype.join(', ')
RECURSIVE join(_)
join(tags) ==
  IF tags = <<>> THEN <<>>
  ELSE IF Len(tags) = 1 THEN tags[1]
  ELSE tags[1] \o <<Comma, Space>> \o join(Tail(tags))

\* Array.prototype.map(tag => tag.trim().toLowerCase())
mapTrimLower(segs) == [i \in 1..Len(segs) |-> toLowerCase(trim(segs[i]))]

\* Array.prototype.filter(tag => tag.length > 0)
RECURSIVE filterNonEmpty(_)
filterNonEmpty(segs) ==
  IF segs = <<>> THEN <<>>
  ELSE IF Len(Head(segs)) > 0
       THEN <<Head(segs)>> \o filterNonEmpty(Tail(segs))
       ELSE filterNonEmpty(Tail(segs))

\* a parseTags that forgets to lowercase
parseTagsNoLower(tagsString) ==
  filterNonEmpty([i \in 1..Len(split(tagsString)) |-> trim(split(tagsString)[i])])

parseTags(tagsString) == filterNonEmpty(mapTrimLower(split(tagsString)))

\* ------------------------------------------------------------------- state
VARIABLES
  notes,            \* useState: the displayed list
  allNotes,         \* useState: the last snapshot
  loading,          \* useState
  openDialog,       \* useState: editor dialog open
  newNote,          \* useState: editor fields {title, body, tags}
  editingNoteId,    \* useState: bound identifier, 0 for null
  deleteDialogOpen, \* useState
  noteToDelete,     \* useState: the candidate note, NullNote for null
  searchQuery,      \* useState
  effectPending,    \* the filter effect's dependencies changed; it has not run yet
  searchInput,      \* the value of the search text field
  searchTimeout,    \* window.searchTimeout: a timer id, 0 for undefined
  timers,           \* the timers the browser holds: {[id, query, remaining]}
  nextTimerId,      \* the id the next setTimeout returns
  querySets,        \* calls of setSearchQuery since the last keystroke
  burstKeys,        \* keystrokes so far, each within the delay of the one before
  store,            \* the remote notes collection: a set of documents
  clock,            \* the store's serverTimestamp()
  nextDocId,        \* the id the store gives the next added document
  snapshotPending,  \* the store has a snapshot the listener has not received
  writes,           \* the writes in flight, oldest first
  issued,           \* number of writes issued so far
  deleted,          \* ids whose delete the store has acknowledged
  lastAction,       \* the handler or step that ran last
  tagsString,       \* SpecTags: the input of parseTags
  parsedTags,       \* SpecTags: its result
  tagsDone          \* SpecTags: parseTags has been applied

uiVars == <<notes, allNotes, loading, searchQuery, effectPending>>
editorVars == <<openDialog, newNote, editingNoteId>>
deleteVars == <<deleteDialogOpen, noteToDelete>>
searchVars == <<searchInput, searchTimeout, timers, nextTimerId, querySets,
                burstKeys>>
storeVars == <<store, clock, nextDocId, snapshotPending, deleted>>
writeVars == <<writes, issued>>
tagVars == <<tagsString, parsedTags, tagsDone>>
vars == <<uiVars, editorVars, deleteVars, searchVars, storeVars, writeVars,
          lastAction, tagVars>>

\* ------------------------------------------------------------------ values
Blank == <<>>
BlankNote == [title |-> Blank, body |-> Blank, tags |-> Blank]

Doc(id, title, body, tags, pinned, createdAt, updatedAt) ==
  [id |-> id, title |-> title, body |-> body, tags |-> tags, pinned |-> pinned,
   createdAt |-> createdAt, updatedAt |-> updatedAt]

NullNote == Doc(0, Blank, Blank, <<>>, FALSE, 0, 0)

\* documents the collection may hold when the component mounts
Doc1 == Doc(1, <<"A">>, <<"A", "b">>, <<>>, FALSE, 1, 1)
Doc2 == Doc(2, <<"c">>, Blank, << <<"b">>, <<"a">> >>, TRUE, 2, 2)
InitStores == { {}, {Doc1}, {Doc1, Doc2} }

\* what the user types into the editor's fields and into the search box
TitleInputs == { <<Space>>, <<Space, "A">> }
BodyInputs == { <<"b", Space>> }
TagsInputs == { <<"B", Comma, Space, "a">> }
SearchInputs == { Blank, <<Space>>, <<"a", "B">>, <<"A">> }

Ids(list) == {list[i].id : i \in 1..Len(list)}
Range(list) == {list[i] : i \in 1..Len(list)}

\* ------------------------------------------------------------------ store
\* orderBy('pinned', 'desc'), orderBy('updatedAt', 'desc')
Before(a, b) ==
  \/ a.pinned /\ ~b.pinned
  \/ a.pinned = b.pinned /\ a.updatedAt > b.updatedAt
  \/ a.pinned = b.pinned /\ a.updatedAt = b.updatedAt /\ a.id < b.id

RECURSIVE Snapshot(_)
Snapshot(docs) ==
  IF docs = {} THEN <<>>
  ELSE LET first == CHOOSE d \in docs : \A e \in docs \ {d} : Before(d, e)
       IN  <<first>> \o Snapshot(docs \ {first})

\* a write in flight
Write(kind, id, title, body, tags, pinned) ==
  [kind |-> kind, id |-> id, title |-> title, body |-> body, tags |-> tags,
   pinned |-> pinned, applied |-> FALSE, detached |-> FALSE]

\* an editor session ended: the save writes still in flight belong to it
Detach(ws) ==
  [i \in 1..Len(ws) |->
     IF ws[i].kind \in {"add", "update"} THEN [ws[i] EXCEPT !.detached = TRUE]
     ELSE ws[i]]

\* ----------------------------------------------------------- search filter
\* a predicate that lowercases the notes and not the query
matchesQueryAsTyped(note, query) ==
  \/ includes(toLowerCase(note.title), query)
  \/ includes(toLowerCase(note.body), query)
  \/ \E i \in 1..Len(note.tags) : includes(toLowerCase(note.tags[i]), query)

\* the predicate of allNotes.filter(...)
matches(note, query) ==
  \/ includes(toLowerCase(note.title), toLowerCase(query))
  \/ includes(toLowerCase(note.body), toLowerCase(query))
  \/ \E i \in 1..Len(note.tags) :
        includes(toLowerCase(note.tags[i]), toLowerCase(query))

\* the body of the search-filter effect: the list it hands to setNotes
filterNotes(all, query) ==
  IF trim(query) = Blank THEN all
  ELSE SelectSeq(all, LAMBDA note : matches(note, query))

\* -------------------------------------------------------------------- Init
InitApp ==
  /\ notes = <<>>
  /\ allNotes = <<>>
  /\ loading = TRUE
  /\ openDialog = FALSE
  /\ newNote = BlankNote
  /\ editingNoteId = 0
  /\ deleteDialogOpen = FALSE
  /\ noteToDelete = NullNote
  /\ searchQuery = Blank
  /\ effectPending = FALSE
  /\ searchInput = Blank
  /\ searchTimeout = 0
  /\ timers = {}
  /\ nextTimerId = 1
  /\ querySets = 0
  /\ burstKeys = 0
  /\ store \in InitStores
  /\ clock = 3
  /\ nextDocId = 3
  /\ snapshotPending = TRUE
  /\ writes = <<>>
  /\ issued = 0
  /\ deleted = {}
  /\ lastAction = "mount"

Init ==
  /\ InitApp
  /\ tagsString = Blank
  /\ parsedTags = <<>>
  /\ tagsDone = FALSE

\* a modal dialog covers the page: the cards and the top bar take no clicks
NoDialog == ~openDialog /\ ~deleteDialogOpen

\* ------------------------------------------------- subscription and effect
\* a callback that takes the snapshot for a delta and keeps what it had
OnSnapshotKeepsOld ==
  /\ snapshotPending
  /\ notes' = notes \o SelectSeq(Snapshot(store), LAMBDA d : d.id \notin Ids(notes))
  /\ allNotes' = allNotes
                   \o SelectSeq(Snapshot(store), LAMBDA d : d.id \notin Ids(allNotes))
  /\ loading' = FALSE
  /\ effectPending' = TRUE
  /\ snapshotPending' = FALSE
  /\ lastAction' = "OnSnapshot"
  /\ UNCHANGED <<searchQuery, editorVars, deleteVars, searchVars, store, clock,
                 nextDocId, deleted, writeVars, tagVars>>

\* the onSnapshot callback
OnSnapshot ==
  /\ snapshotPending
  /\ notes' = Snapshot(store)
  /\ allNotes' = Snapshot(store)
  /\ loading' = FALSE
  /\ effectPending' = TRUE
  /\ snapshotPending' = FALSE
  /\ lastAction' = "OnSnapshot"
  /\ UNCHANGED <<searchQuery, editorVars, deleteVars, searchVars, store, clock,
                 nextDocId, deleted, writeVars, tagVars>>

\* the effect on [searchQuery, allNotes]
FilterEffect ==
  /\ effectPending
  /\ notes' = filterNotes(allNotes, searchQuery)
  /\ effectPending' = FALSE
  /\ lastAction' = "FilterEffect"
  /\ UNCHANGED <<allNotes, loading, searchQuery, editorVars, deleteVars,
                 searchVars, storeVars, writeVars, tagVars>>

\* ------------------------------------------------------------------ editor
HandleNewNoteClick ==
  /\ NoDialog
  /\ newNote' = BlankNote
  /\ editingNoteId' = 0
  /\ openDialog' = TRUE
  /\ lastAction' = "HandleNewNoteClick"
  /\ UNCHANGED <<uiVars, deleteVars, searchVars, storeVars, writeVars, tagVars>>

HandleEditNote(note) ==
  /\ NoDialog /\ ~loading
  /\ newNote' = [title |-> note.title, body |-> note.body, tags |-> join(note.tags)]
  /\ editingNoteId' = note.id
  /\ openDialog' = TRUE
  /\ lastAction' = "HandleEditNote"
  /\ UNCHANGED <<uiVars, deleteVars, searchVars, storeVars, writeVars, tagVars>>

\* the onChange of the three text fields
SetTitle(value) ==
  /\ openDialog
  /\ newNote' = [newNote EXCEPT !.title = value]
  /\ lastAction' = "SetTitle"
  /\ UNCHANGED <<uiVars, openDialog, editingNoteId, deleteVars, searchVars,
                 storeVars, writeVars, tagVars>>

SetBody(value) ==
  /\ openDialog
  /\ newNote' = [newNote EXCEPT !.body = value]
  /\ lastAction' = "SetBody"
  /\ UNCHANGED <<uiVars, openDialog, editingNoteId, deleteVars, searchVars,
                 storeVars, writeVars, tagVars>>

SetTags(value) ==
  /\ openDialog
  /\ newNote' = [newNote EXCEPT !.tags = value]
  /\ lastAction' = "SetTags"
  /\ UNCHANGED <<uiVars, openDialog, editingNoteId, deleteVars, searchVars,
                 storeVars, writeVars, tagVars>>

\* handleSaveNote without its first line
HandleSaveNoteNoGuard ==
  /\ openDialog
  /\ issued < MaxSaves
  /\ writes' = Append(writes,
        Write(IF editingNoteId # 0 THEN "update" ELSE "add", editingNoteId,
              trim(newNote.title), trim(newNote.body), parseTags(newNote.tags),
              FALSE))
  /\ issued' = issued + 1
  /\ lastAction' = "HandleSaveNote"
  /\ UNCHANGED <<uiVars, editorVars, deleteVars, searchVars, storeVars, tagVars>>

\* handleSaveNote up to its await
HandleSaveNote ==
  /\ openDialog
  /\ lastAction' = "HandleSaveNote"
  /\ IF trim(newNote.title) = Blank
     THEN UNCHANGED <<writes, issued>>
     ELSE /\ issued < MaxSaves
          /\ writes' = Append(writes,
                Write(IF editingNoteId # 0 THEN "update" ELSE "add", editingNoteId,
                      trim(newNote.title), trim(newNote.body),
                      parseTags(newNote.tags), FALSE))
          /\ issued' = issued + 1
  /\ UNCHANGED <<uiVars, editorVars, deleteVars, searchVars, storeVars, tagVars>>

HandleCloseDialog ==
  /\ openDialog
  /\ openDialog' = FALSE
  /\ newNote' = BlankNote
  /\ editingNoteId' = 0
  /\ writes' = Detach(writes)
  /\ lastAction' = "HandleCloseDialog"
  /\ UNCHANGED <<uiVars, deleteVars, searchVars, storeVars, issued, tagVars>>

\* --------------------------------------------------------------------- pin
\* handleTogglePin(note.id, note.pinned) up to its await; note is a card of
\* the displayed list
HandleTogglePin(note) ==
  /\ NoDialog /\ ~loading
  /\ issued < MaxWrites
  /\ writes' = Append(writes, Write("pin", note.id, Blank, Blank, <<>>, ~note.pinned))
  /\ issued' = issued + 1
  /\ lastAction' = "HandleTogglePin"
  /\ UNCHANGED <<uiVars, editorVars, deleteVars, searchVars, storeVars, tagVars>>

\* ------------------------------------------------------------------ delete
HandleConfirmDelete(note) ==
  /\ NoDialog /\ ~loading
  /\ noteToDelete' = note
  /\ deleteDialogOpen' = TRUE
  /\ lastAction' = "HandleConfirmDelete"
  /\ UNCHANGED <<uiVars, editorVars, searchVars, storeVars, writeVars, tagVars>>

\* the Cancel button and onClose of the confirmation dialog
CancelDelete ==
  /\ deleteDialogOpen
  /\ deleteDialogOpen' = FALSE
  /\ lastAction' = "CancelDelete"
  /\ UNCHANGED <<uiVars, editorVars, noteToDelete, searchVars, storeVars,
                 writeVars, tagVars>>

\* handleDeleteNote up to its await
HandleDeleteNote ==
  /\ deleteDialogOpen
  /\ lastAction' = "HandleDeleteNote"
  /\ IF noteToDelete = NullNote
     THEN UNCHANGED <<writes, issued>>
     ELSE /\ issued < MaxWrites
          /\ writes' = Append(writes,
                Write("delete", noteToDelete.id, Blank, Blank, <<>>, FALSE))
          /\ issued' = issued + 1
  /\ UNCHANGED <<uiVars, editorVars, deleteVars, searchVars, storeVars, tagVars>>

\* ------------------------------------------------------------------ search
\* a handler that schedules over the pending timer without clearing it
HandleSearchChangeNoClear(query) ==
  /\ NoDialog
  /\ query # searchInput
  /\ nextTimerId <= MaxKeys
  /\ searchInput' = query
  /\ timers' = timers \cup {[id |-> nextTimerId, query |-> query,
                              remaining |-> DebounceDelay]}
  /\ searchTimeout' = nextTimerId
  /\ nextTimerId' = nextTimerId + 1
  /\ querySets' = 0
  /\ burstKeys' = IF \E t \in timers : t.id = searchTimeout /\ t.remaining > 0
                  THEN burstKeys + 1 ELSE 1
  /\ lastAction' = "HandleSearchChange"
  /\ UNCHANGED <<uiVars, editorVars, deleteVars, storeVars, writeVars, tagVars>>

HandleSearchChange(query) ==
  /\ NoDialog
  /\ query # searchInput
  /\ nextTimerId <= MaxKeys
  /\ searchInput' = query
  /\ timers' = {t \in timers : searchTimeout = 0 \/ t.id # searchTimeout}
                 \cup {[id |-> nextTimerId, query |-> query,
                        remaining |-> DebounceDelay]}
  /\ searchTimeout' = nextTimerId
  /\ nextTimerId' = nextTimerId + 1
  /\ querySets' = 0
  /\ burstKeys' = IF \E t \in timers : t.id = searchTimeout /\ t.remaining > 0
                  THEN burstKeys + 1 ELSE 1
  /\ lastAction' = "HandleSearchChange"
  /\ UNCHANGED <<uiVars, editorVars, deleteVars, storeVars, writeVars, tagVars>>

\* time passes, no further than the next timer's expiry
Tick ==
  /\ timers # {}
  /\ \A t \in timers : t.remaining > 0
  /\ timers' = {[t EXCEPT !.remaining =
                    IF t.remaining > TickStep THEN t.remaining - TickStep ELSE 0]
                : t \in timers}
  /\ lastAction' = "Tick"
  /\ UNCHANGED <<uiVars, editorVars, deleteVars, searchInput, searchTimeout,
                 nextTimerId, querySets, burstKeys, storeVars, writeVars,
                 tagVars>>

\* the timer's callback: debouncedSearch(query), that is setSearchQuery(query)
TimerFire(t) ==
  /\ t \in timers
  /\ t.remaining = 0
  /\ timers' = timers \ {t}
  /\ searchQuery' = t.query
  /\ effectPending' = (effectPending \/ t.query # searchQuery)
  /\ querySets' = querySets + 1
  /\ lastAction' = "TimerFire"
  /\ UNCHANGED <<notes, allNotes, loading, editorVars, deleteVars, searchInput,
                 searchTimeout, nextTimerId, burstKeys, storeVars, writeVars,
                 tagVars>>

\* ------------------------------------------------- the store and the awaits
\* the oldest write the store has not decided yet
FirstUnapplied ==
  CHOOSE k \in 1..Len(writes) :
    ~writes[k].applied /\ \A j \in 1..(k - 1) : writes[j].applied

\* the collection after write w: addDoc, updateDoc, deleteDoc
Applied(w) ==
  CASE w.kind = "add" ->
         store \cup {Doc(nextDocId, w.title, w.body, w.tags, FALSE, clock, clock)}
    [] w.kind = "update" ->
         {IF d.id = w.id
          THEN [d EXCEPT !.title = w.title, !.body = w.body, !.tags = w.tags,
                         !.updatedAt = clock]
          ELSE d : d \in store}
    [] w.kind = "pin" ->
         {IF d.id = w.id
          THEN [d EXCEPT !.pinned = w.pinned, !.updatedAt = clock]
          ELSE d : d \in store}
    [] w.kind = "delete" -> {d \in store : d.id # w.id}

\* the store commits the oldest undecided write; updateDoc needs the document
StoreApply ==
  /\ \E k \in 1..Len(writes) : ~writes[k].applied
  /\ LET k == FirstUnapplied
         w == writes[k]
     IN  /\ w.kind \in {"update", "pin"} => w.id \in {d.id : d \in store}
         /\ store' = Applied(w)
         /\ nextDocId' = IF w.kind = "add" THEN nextDocId + 1 ELSE nextDocId
         /\ clock' = IF w.kind = "delete" THEN clock ELSE clock + 1
         /\ snapshotPending' = (snapshotPending \/ store' # store)
         /\ writes' = [writes EXCEPT ![k].applied = TRUE]
  /\ lastAction' = "StoreApply"
  /\ UNCHANGED <<uiVars, editorVars, deleteVars, searchVars, deleted, issued,
                 tagVars>>

Resolves(kinds) ==
  writes # <<>> /\ Head(writes).kind \in kinds /\ Head(writes).applied

Rejects(kinds) ==
  writes # <<>> /\ Head(writes).kind \in kinds /\ ~Head(writes).applied

\* handleSaveNote after its await
SaveNoteResolved ==
  /\ Resolves({"add", "update"})
  /\ editingNoteId' = IF Head(writes).kind = "update" THEN 0 ELSE editingNoteId
  /\ openDialog' = FALSE
  /\ newNote' = BlankNote
  /\ writes' = Detach(Tail(writes))
  /\ lastAction' = "SaveNoteResolved"
  /\ UNCHANGED <<uiVars, deleteVars, searchVars, storeVars, issued, tagVars>>

\* a catch block that closes the editor
SaveNoteRejectedCloses ==
  /\ Rejects({"add", "update"})
  /\ openDialog' = FALSE
  /\ newNote' = BlankNote
  /\ writes' = Tail(writes)
  /\ lastAction' = "SaveNoteRejected"
  /\ UNCHANGED <<uiVars, editingNoteId, deleteVars, searchVars, storeVars,
                 issued, tagVars>>

\* handleSaveNote's catch block
SaveNoteRejected ==
  /\ Rejects({"add", "update"})
  /\ writes' = Tail(writes)
  /\ lastAction' = "SaveNoteRejected"
  /\ UNCHANGED <<uiVars, editorVars, deleteVars, searchVars, storeVars, issued,
                 tagVars>>

\* handleTogglePin after its await
TogglePinResolved ==
  /\ Resolves({"pin"})
  /\ writes' = Tail(writes)
  /\ lastAction' = "TogglePinResolved"
  /\ UNCHANGED <<uiVars, editorVars, deleteVars, searchVars, storeVars, issued,
                 tagVars>>

\* handleTogglePin's catch block
TogglePinRejected ==
  /\ Rejects({"pin"})
  /\ writes' = Tail(writes)
  /\ lastAction' = "TogglePinRejected"
  /\ UNCHANGED <<uiVars, editorVars, deleteVars, searchVars, storeVars, issued,
                 tagVars>>

\* handleDeleteNote after its await
DeleteNoteResolved ==
  /\ Resolves({"delete"})
  /\ deleteDialogOpen' = FALSE
  /\ noteToDelete' = NullNote
  /\ deleted' = deleted \cup {Head(writes).id}
  /\ writes' = Tail(writes)
  /\ lastAction' = "DeleteNoteResolved"
  /\ UNCHANGED <<uiVars, editorVars, searchVars, store, clock, nextDocId,
                 snapshotPending, issued, tagVars>>

\* a handler that closes the confirmation dialog in a finally block
DeleteNoteRejectedCloses ==
  /\ Rejects({"delete"})
  /\ deleteDialogOpen' = FALSE
  /\ noteToDelete' = NullNote
  /\ writes' = Tail(writes)
  /\ lastAction' = "DeleteNoteRejected"
  /\ UNCHANGED <<uiVars, editorVars, searchVars, storeVars, issued, tagVars>>

\* handleDeleteNote's catch block
DeleteNoteRejected ==
  /\ Rejects({"delete"})
  /\ writes' = Tail(writes)
  /\ lastAction' = "DeleteNoteRejected"
  /\ UNCHANGED <<uiVars, editorVars, deleteVars, searchVars, storeVars, issued,
                 tagVars>>

\* ---------------------------------------------------------- specification
Next ==
  \/ OnSnapshot
  \/ FilterEffect
  \/ HandleNewNoteClick
  \/ \E note \in Range(notes) : HandleEditNote(note)
  \/ \E value \in TitleInputs : SetTitle(value)
  \/ \E value \in BodyInputs : SetBody(value)
  \/ \E value \in TagsInputs : SetTags(value)
  \/ HandleSaveNote
  \/ HandleCloseDialog
  \/ \E note \in Range(notes) : HandleTogglePin(note)
  \/ \E note \in Range(notes) : HandleConfirmDelete(note)
  \/ CancelDelete
  \/ HandleDeleteNote
  \/ \E query \in SearchInputs : HandleSearchChange(query)
  \/ Tick
  \/ \E t \in timers : TimerFire(t)
  \/ StoreApply
  \/ SaveNoteResolved
  \/ SaveNoteRejected
  \/ TogglePinResolved
  \/ TogglePinRejected
  \/ DeleteNoteResolved
  \/ DeleteNoteRejected

Spec == Init /\ [][Next]_vars

\* The editor, the card actions and the search box work on disjoint state
\* (editorVars; deleteVars; searchVars and searchQuery) and meet only in the
\* displayed list they read and in the queue of writes. Each is checked with
\* the subscription, the effect and the store, under the user actions of its
\* own part of the page.
Subscription == OnSnapshot \/ FilterEffect

NextEditor ==
  \/ Subscription
  \/ HandleNewNoteClick
  \/ \E note \in Range(notes) : HandleEditNote(note)
  \/ \E value \in TitleInputs : SetTitle(value)
  \/ \E value \in BodyInputs : SetBody(value)
  \/ \E value \in TagsInputs : SetTags(value)
  \/ HandleSaveNote
  \/ HandleCloseDialog
  \/ StoreApply
  \/ SaveNoteResolved
  \/ SaveNoteRejected

\* the editor reads one card at most: the collection holds one document or none
InitEditor == Init /\ store \in { {}, {Doc1} }

SpecEditor == InitEditor /\ [][NextEditor]_vars

NextCards ==
  \/ Subscription
  \/ \E note \in Range(notes) : HandleTogglePin(note)
  \/ \E note \in Range(notes) : HandleConfirmDelete(note)
  \/ CancelDelete
  \/ HandleDeleteNote
  \/ StoreApply
  \/ TogglePinResolved
  \/ TogglePinRejected
  \/ DeleteNoteResolved
  \/ DeleteNoteRejected

SpecCards == Init /\ [][NextCards]_vars

NextSearch ==
  \/ Subscription
  \/ \E query \in SearchInputs : HandleSearchChange(query)
  \/ Tick
  \/ \E t \in timers : TimerFire(t)
  \/ \E note \in Range(notes) : HandleTogglePin(note)
  \/ StoreApply
  \/ TogglePinResolved
  \/ TogglePinRejected

SpecSearch == Init /\ [][NextSearch]_vars

\* --------------------------------------------- parseTags on bounded inputs
\* "Gaming,  Dota ,, Design"
Example ==
  <<"G", "a", "m", "i", "n", "g", Comma, Space, Space, "D", "o", "t", "a", Space,
    Comma, Comma, Space, "D", "e", "s", "i", "g", "n">>
ExampleTags ==
  << <<"g", "a", "m", "i", "n", "g">>, <<"d", "o", "t", "a">>,
     <<"d", "e", "s", "i", "g", "n">> >>

TagStrings ==
  UNION {[1..n -> Alphabet] : n \in 0..MaxLen} \cup {Example}

InitTags ==
  /\ InitApp
  /\ store = {}
  /\ tagsString \in TagStrings
  /\ parsedTags = <<>>
  /\ tagsDone = FALSE

ApplyParseTags ==
  /\ ~tagsDone
  /\ parsedTags' = parseTags(tagsString)
  /\ tagsDone' = TRUE
  /\ UNCHANGED <<uiVars, editorVars, deleteVars, searchVars, storeVars,
                 writeVars, lastAction, tagsString>>

NextTags == ApplyParseTags

SpecTags == InitTags /\ [][NextTags]_vars

\* ============================================================== properties
IsBlank(s) == \A i \in 1..Len(s) : s[i] = Space

\* s contains q, both compared without case, position by position
ContainsNoCase(s, q) ==
  \E k \in 0..(Len(s) - Len(q)) :
    \A j \in 1..Len(q) : LowerChar(s[k + j]) = LowerChar(q[j])

RefMatch(note, q) ==
  \/ ContainsNoCase(note.title, q)
  \/ ContainsNoCase(note.body, q)
  \/ \E tag \in Range(note.tags) : ContainsNoCase(tag, q)

\* the k-th smallest member of a set of numbers
Kth(S, k) == CHOOSE x \in S : Cardinality({y \in S : y < x}) = k - 1

\* the reference filter: the matching notes, in the order of the list
RefFilter(all, q) ==
  IF IsBlank(q) THEN all
  ELSE LET idx == {i \in 1..Len(all) : RefMatch(all[i], q)}
       IN  [k \in 1..Cardinality(idx) |-> all[Kth(idx, k)]]

\* the reference parse: the pieces between consecutive commas, each cut down
\* to its first and last non-space character and lowercased, empty ones left out
RefTrimLower(s) ==
  LET ink == {i \in 1..Len(s) : s[i] # Space}
  IN  IF ink = {} THEN <<>>
      ELSE LET lo == Kth(ink, 1)
               hi == Kth(ink, Cardinality(ink))
           IN  [i \in 1..(hi - lo + 1) |-> LowerChar(s[lo + i - 1])]

RefParseTags(s) ==
  LET cuts == {0, Len(s) + 1} \cup {i \in 1..Len(s) : s[i] = Comma}
      piece(k) == RefTrimLower(SubSeq(s, Kth(cuts, k) + 1, Kth(cuts, k + 1) - 1))
      kept == {k \in 1..(Cardinality(cuts) - 1) : piece(k) # <<>>}
  IN  [n \in 1..Cardinality(kept) |-> piece(Kth(kept, n))]

\* C1: a save pressed while the title is empty or whitespace-only issues no
\* add-document and no update-document call, changes nothing in the store, and
\* leaves the editor open with its fields and its bound identifier as they were.
C1_BlankTitleSaveIsNoOp ==
  [][(lastAction' = "HandleSaveNote" /\ IsBlank(newNote.title))
       => /\ writes' = writes /\ issued' = issued /\ store' = store
          /\ openDialog' /\ newNote' = newNote
          /\ editingNoteId' = editingNoteId]_vars

\* C1 witness: save was pressed in an editor bound to a note, its title
\* whitespace-only, and nothing is in flight.
C1_Witness ==
  /\ lastAction = "HandleSaveNote" /\ openDialog /\ newNote.title = <<Space>>
  /\ editingNoteId # 0 /\ writes = <<>>

\* C2: once the filter effect has run for the current (allNotes, searchQuery),
\* the displayed list is the reference filter of allNotes: all of it for a
\* blank query, otherwise the notes whose title, body or some tag contains the
\* query without regard to case, in the order of allNotes.
C2_DisplayedIsReferenceFilter ==
  ~effectPending => notes = RefFilter(allNotes, searchQuery)

\* C2 witness: the effect has run for a mixed-case query that keeps one of two
\* notes.
C2_Witness ==
  /\ lastAction = "FilterEffect" /\ searchQuery = <<"a", "B">>
  /\ Len(allNotes) = 2 /\ Len(notes) = 1

\* C3 (as claimed): every pin write the store commits inverts the stored
\* pinned value of its note and refreshes its updatedAt, and changes no other
\* note.
C3_ToggleInvertsStored ==
  [][(lastAction' = "StoreApply" /\ writes[FirstUnapplied].kind = "pin")
       => \A d \in store :
            IF d.id = writes[FirstUnapplied].id
            THEN \E e \in store' : /\ e.id = d.id
                                   /\ e.pinned = ~d.pinned
                                   /\ e.updatedAt > d.updatedAt
            ELSE d \in store']_vars

\* C4 (as claimed): after a delivery made while a non-blank query is active,
\* the displayed list holds no note that does not match the query.
C4_NoUnmatchedAfterDelivery ==
  (lastAction = "OnSnapshot" /\ ~IsBlank(searchQuery))
    => \A n \in Range(notes) : RefMatch(n, searchQuery)

\* C5 (as claimed): once the delete call has succeeded or failed, the
\* confirmation dialog is closed.
C5_DialogClosesRegardless ==
  lastAction \in {"DeleteNoteResolved", "DeleteNoteRejected"} => ~deleteDialogOpen

\* C5 (amended): when the delete call succeeds the confirmation dialog is closed
\* and its note unbound; when it fails the dialog and its bound note are left
\* as they were, so a dialog still open stays open.
C5_DialogClosesOnSuccessOnly ==
  [][/\ lastAction' = "DeleteNoteResolved"
          => ~deleteDialogOpen' /\ noteToDelete' = NullNote
     /\ lastAction' = "DeleteNoteRejected"
          => deleteDialogOpen' = deleteDialogOpen /\ noteToDelete' = noteToDelete]_vars

\* C5 witness: the delete call failed and the dialog is still open on its note.
C5_Witness ==
  lastAction = "DeleteNoteRejected" /\ deleteDialogOpen /\ noteToDelete # NullNote

C7_DeleteRemovesExactlyX ==
  [][/\ lastAction' = "HandleConfirmDelete" => noteToDelete' \in Range(notes)
     /\ lastAction' = "HandleDeleteNote"
          => writes' = Append(writes,
                 Write("delete", noteToDelete.id, Blank, Blank, <<>>, FALSE))
     /\ (lastAction' = "StoreApply" /\ writes[FirstUnapplied].kind = "delete")
          => store' = {d \in store : d.id # writes[FirstUnapplied].id}
     /\ lastAction' = "OnSnapshot"
          => \A x \in deleted : x \notin Ids(allNotes') /\ x \notin Ids(notes')
     /\ \A x \in deleted :
          (x \notin Ids(allNotes) /\ x \notin Ids(notes))
            => (x \notin Ids(allNotes') /\ x \notin Ids(notes'))]_vars

\* C7 witness: note 1's delete was acknowledged, a delivery followed, and the
\* other note is still listed.
C7_Witness ==
  /\ lastAction = "OnSnapshot" /\ deleted = {1}
  /\ Ids(allNotes) = {2} /\ Ids(notes) = {2}

\* C8: when the store rejects a save's write, the editor's open flag, fields
\* and bound identifier are left as they were, the store is unchanged and no
\* write is issued again.
C8_RejectedSaveKeepsEditor ==
  [][lastAction' = "SaveNoteRejected"
       => /\ openDialog' = openDialog /\ newNote' = newNote
          /\ editingNoteId' = editingNoteId
          /\ writes' = Tail(writes) /\ issued' = issued /\ store' = store]_vars

\* C8 witness: an update was rejected; the editor is open on its note with the
\* typed title, nothing in flight.
C8_Witness ==
  /\ lastAction = "SaveNoteRejected" /\ openDialog /\ editingNoteId = 1
  /\ newNote.title = <<Space, "A">> /\ writes = <<>>

\* C9: parseTags gives the pieces between commas, trimmed and lowercased, empty
\* ones dropped, in input order and with repeats kept; the example of the
\* specification parses to gaming, dota, design.
C9_ParseTagsIsReference ==
  tagsDone => /\ parsedTags = RefParseTags(tagsString)
              /\ tagsString = Example => parsedTags = ExampleTags

\* C9 witness: the example has been parsed.
C9_Witness ==
  tagsDone /\ tagsString = Example /\ parsedTags = ExampleTags

\* C10 (as claimed): the acknowledgment of a save issued by an editor session
\* that has ended leaves a reopened editor open, with its fields and its bound
\* identifier.
C10_AckOnlyItsSession ==
  [][(lastAction' = "SaveNoteResolved" /\ Head(writes).detached /\ openDialog)
       => openDialog' /\ newNote' = newNote
          /\ editingNoteId' = editingNoteId]_vars

====
